---------------------------- MODULE Spec2Model ----------------------------
(***************************************************************************)
(* Gimlet Inspector protocol (src/src/lib.rs).                             *)
(*                                                                         *)
(* The crate declares three enums that derive Serialize, Deserialize and   *)
(* SerializedSize and are encoded with hubpack: an enum value is one byte  *)
(* holding the variant's index in declaration order, followed by the       *)
(* encoding of the variant's fields.  Raw "trailer" bytes may follow the   *)
(* hubpack-encoded part of a packet.                                       *)
(*                                                                         *)
(* A value is modelled as the sequence of variant names from the outside   *)
(* in: Request::V0(QueryV0::SequencerRegisters) is                         *)
(* <<"V0", "SequencerRegisters">>, SequencerRegistersResponseV0::Success   *)
(* is <<"Success">>.                                                       *)
(***************************************************************************)
EXTENDS Integers, Sequences, FiniteSets, TLC

----------------------------------------------------------------------------
(* Bounds of the model *)

\* Largest step between consecutive bytes of a generated trailer.
MaxStep == 2

\* Most filler bytes that follow the leading bytes of an arbitrary packet.
MaxTail == 1

\* Most bytes by which the collaborator's register image exceeds the budget.
MaxExcess == 2

\* Most datagrams delivered to the agent in one run.
MaxInbound == 3

----------------------------------------------------------------------------
(* Declarations of the crate *)

Byte == 0..255

Max(S) == CHOOSE m \in S : \A x \in S : x <= m

\* Faulty variant: a variant inserted in front of V0 instead of appended.
RequestVariants_Stubbed == <<"Obsolete", "V0">>

\* pub enum Request { V0(QueryV0) }
RequestVariants == <<"V0">>

\* pub enum QueryV0 { SequencerRegisters }
QueryV0Variants == <<"SequencerRegisters">>

\* Faulty variant: the two failure variants declared in the other order.
SequencerRegistersResponseV0Variants_Reordered ==
    <<"Success", "SequencerReadRegsFailed", "SequencerTaskDead">>

\* pub enum SequencerRegistersResponseV0 { Success, SequencerTaskDead,
\*                                         SequencerReadRegsFailed }
SequencerRegistersResponseV0Variants ==
    <<"Success", "SequencerTaskDead", "SequencerReadRegsFailed">>

Range(s) == {s[i] : i \in 1..Len(s)}

\* The values of each type.
QueryV0 == {<<q>> : q \in Range(QueryV0Variants)}
Request == {<<"V0">> \o q : q \in QueryV0}
SequencerRegistersResponseV0 ==
    {<<v>> : v \in Range(SequencerRegistersResponseV0Variants)}

\* pub const QUERY_V0_TRAILER: usize = 0;
QUERY_V0_TRAILER == 0

\* pub const REQUEST_TRAILER: usize = QUERY_V0_TRAILER;
REQUEST_TRAILER == QUERY_V0_TRAILER

\* pub const SEQ_REG_RESP_V0_TRAILER: usize = 64;
SEQ_REG_RESP_V0_TRAILER == 64

\* #[derive(SerializedSize)]: one byte of variant index plus the widest
\* variant's fields.
QueryV0_MAX_SIZE == 1 + Max({0})

\* Faulty variant: the size of Request without the byte of its own variant index.
Request_MAX_SIZE_Narrow == Max({QueryV0_MAX_SIZE})

Request_MAX_SIZE == 1 + Max({QueryV0_MAX_SIZE})
SequencerRegistersResponseV0_MAX_SIZE == 1 + Max({0, 0, 0})

\* Faulty variant: the constant left at the trailer budget alone.
ANY_RESPONSE_V0_MAX_SIZE_Stale == SEQ_REG_RESP_V0_TRAILER

\* pub const ANY_RESPONSE_V0_MAX_SIZE: usize =
\*     SequencerRegistersResponseV0::MAX_SIZE + SEQ_REG_RESP_V0_TRAILER;
ANY_RESPONSE_V0_MAX_SIZE ==
    SequencerRegistersResponseV0_MAX_SIZE + SEQ_REG_RESP_V0_TRAILER

\* The most trailer bytes a response variant may carry: Success carries the
\* register image, up to SEQ_REG_RESP_V0_TRAILER bytes; "No data is attached"
\* to SequencerTaskDead and SequencerReadRegsFailed.
TrailerLimit(v) ==
    IF v = <<"Success">> THEN SEQ_REG_RESP_V0_TRAILER ELSE 0

----------------------------------------------------------------------------
(* The derived serde implementations under hubpack *)

\* The index of a variant in declaration order, from 0.
Ordinal(variants, name) ==
    (CHOOSE i \in 1..Len(variants) : variants[i] = name) - 1

\* #[derive(Serialize)] for QueryV0: the variant index, no fields.
EncodeQueryV0(q) == <<Ordinal(QueryV0Variants, q[1])>>

\* #[derive(Serialize)] for Request: the variant index, then the QueryV0.
EncodeRequest(r) ==
    <<Ordinal(RequestVariants, r[1])>> \o EncodeQueryV0(Tail(r))

\* #[derive(Serialize)] for SequencerRegistersResponseV0.
EncodeSequencerRegistersResponseV0(v) ==
    <<Ordinal(SequencerRegistersResponseV0Variants, v[1])>>

\* hubpack::serialize(&mut buf, &value): writes the encoding at the start of
\* buf and returns its length, or fails with Overrun when buf is too small.
Serialize(buf, enc) ==
    IF Len(enc) > Len(buf)
    THEN [ok |-> FALSE, len |-> 0, buf |-> buf, err |-> "Overrun"]
    ELSE [ok |-> TRUE, len |-> Len(enc),
          buf |-> enc \o SubSeq(buf, Len(enc) + 1, Len(buf)),
          err |-> "none"]

\* A fresh buffer [0; n].
Fresh(n) == [i \in 1..n |-> 0]

\* Results of hubpack::deserialize: Ok((value, rest)) or Err(e).
Ok(value, rest) == [ok |-> TRUE, value |-> value, rest |-> rest, err |-> "none"]
Err(e) == [ok |-> FALSE, value |-> <<>>, rest |-> <<>>, err |-> e]

\* Faulty variant: any index is taken for the one declared query.
DecodeQueryV0_AnyIndex(bytes) ==
    IF bytes = <<>> THEN Err("Truncated")
    ELSE Ok(<<"SequencerRegisters">>, Tail(bytes))

\* #[derive(Deserialize)] for QueryV0: one byte of variant index; running out
\* of input is Truncated, an index no variant has is serde's invalid-value
\* error, which hubpack reports as Custom.
DecodeQueryV0(bytes) ==
    IF bytes = <<>> THEN Err("Truncated")
    ELSE IF Head(bytes) >= Len(QueryV0Variants) THEN Err("Custom")
    ELSE Ok(<<QueryV0Variants[Head(bytes) + 1]>>, Tail(bytes))

\* Faulty variant: the version byte is skipped without being looked at.
DecodeRequest_AnyVersion(bytes) ==
    IF bytes = <<>> THEN Err("Truncated")
    ELSE LET q == DecodeQueryV0(Tail(bytes))
         IN  IF q.ok THEN Ok(<<"V0">> \o q.value, q.rest) ELSE q

\* #[derive(Deserialize)] for Request: the variant index, then the fields of
\* that variant.
DecodeRequest(bytes) ==
    IF bytes = <<>> THEN Err("Truncated")
    ELSE IF Head(bytes) >= Len(RequestVariants) THEN Err("Custom")
    ELSE LET q == DecodeQueryV0(Tail(bytes))
         IN  IF q.ok
             THEN Ok(<<RequestVariants[Head(bytes) + 1]>> \o q.value, q.rest)
             ELSE q

\* Faulty variant: the index byte is read but not consumed.
DecodeSequencerRegistersResponseV0_KeepsIndex(bytes) ==
    IF bytes = <<>> THEN Err("Truncated")
    ELSE IF Head(bytes) >= 3 THEN Err("Custom")
    ELSE Ok(<<(<<"Success", "SequencerTaskDead",
                 "SequencerReadRegsFailed">>)[Head(bytes) + 1]>>, bytes)

\* #[derive(Deserialize)] for SequencerRegistersResponseV0.
DecodeSequencerRegistersResponseV0(bytes) ==
    IF bytes = <<>> THEN Err("Truncated")
    ELSE IF Head(bytes) >= Len(SequencerRegistersResponseV0Variants)
         THEN Err("Custom")
    ELSE Ok(<<SequencerRegistersResponseV0Variants[Head(bytes) + 1]>>,
            Tail(bytes))

----------------------------------------------------------------------------
(* Packets *)

\* The first bytes a register image may start with (a sequencer revision).
RevisionTags == {0, 3, 255}

\* A trailer of n bytes starting at `first`, each byte `step` more than the
\* one before it.
Trailer(n, first, step) == [i \in 1..n |-> (first + (i - 1) * step) % 256]

\* The trailers a packet may carry: 0 to SEQ_REG_RESP_V0_TRAILER bytes.
Trailers ==
    {Trailer(n, f, s) : n \in 0..SEQ_REG_RESP_V0_TRAILER,
                        f \in RevisionTags, s \in 0..MaxStep}

\* Arbitrary received packets: every byte string as long as the widest
\* structured encoding at most, followed by up to MaxTail zero bytes.
ArbitraryPackets ==
    {h \o Fresh(n) :
        h \in UNION {[1..k -> Byte] : k \in 0..Request_MAX_SIZE},
        n \in 0..MaxTail}

VARIABLES
    pc,        \* "idle", "encoded", "received", "decoded"
    kind,      \* the type the packet is encoded from or decoded as
    message,   \* the value that was encoded (<<>> when none was)
    trailer,   \* the trailer appended to the encoding
    encoded,   \* the result of hubpack::serialize into a fresh buffer
    wire,      \* the bytes of the packet
    decoded,   \* the result of hubpack::deserialize
    inbox,     \* the agent: datagrams delivered and not yet considered
    arrived,   \* the agent: number of datagrams delivered so far
    apc,       \* the agent: "idle", "dispatch", "respond", "fatal"
    query,     \* the agent: the query being handled (<<>> when none)
    outcome,   \* the agent: what the sequencer collaborator returned
    sent,      \* the agent: the response packet of the last message handled
    nDecoded,  \* the agent: requests decoded so far
    nSent,     \* the agent: responses sent so far
    nAborted   \* the agent: requests whose handling halted as fatal

codecVars == <<pc, kind, message, trailer, encoded, wire, decoded>>
agentVars ==
    <<inbox, arrived, apc, query, outcome, sent, nDecoded, nSent, nAborted>>
vars == <<codecVars, agentVars>>

NoResult == Err("none")
NotEncoded == [ok |-> FALSE, len |-> 0, buf |-> <<>>, err |-> "none"]
NoOutcome == [kind |-> "none", regs |-> <<>>]

Init ==
    /\ pc = "idle"
    /\ kind = "none"
    /\ message = <<>>
    /\ trailer = <<>>
    /\ encoded = NotEncoded
    /\ wire = <<>>
    /\ decoded = NoResult
    /\ inbox = <<>>
    /\ arrived = 0
    /\ apc = "idle"
    /\ query = <<>>
    /\ outcome = NoOutcome
    /\ sent = <<>>
    /\ nDecoded = 0
    /\ nSent = 0
    /\ nAborted = 0

\* let mut encoded = [0; Request::MAX_SIZE];
\* let len = hubpack::serialize(&mut encoded, &message)
SendRequest ==
    /\ pc = "idle"
    /\ \E r \in Request :
        LET res == Serialize(Fresh(Request_MAX_SIZE), EncodeRequest(r))
        IN  /\ message' = r
            /\ encoded' = res
            /\ wire' = SubSeq(res.buf, 1, res.len)
    /\ kind' = "Request"
    /\ trailer' = <<>>
    /\ pc' = "encoded"
    /\ UNCHANGED <<decoded, agentVars>>

\* let mut encoded = [0; SequencerRegistersResponseV0::MAX_SIZE];
\* let len = hubpack::serialize(&mut encoded, &v), then the trailer bytes
\* are appended after the hubpack-encoded data.
SendResponse ==
    /\ pc = "idle"
    /\ \E v \in SequencerRegistersResponseV0, t \in Trailers :
        LET res == Serialize(Fresh(SequencerRegistersResponseV0_MAX_SIZE),
                             EncodeSequencerRegistersResponseV0(v))
        IN  /\ message' = v
            /\ trailer' = t
            /\ encoded' = res
            /\ wire' = SubSeq(res.buf, 1, res.len) \o t
    /\ kind' = "Response"
    /\ pc' = "encoded"
    /\ UNCHANGED <<decoded, agentVars>>

\* A packet arrives that no encoder of this crate produced.
ReceiveArbitrary ==
    /\ pc = "idle"
    /\ \E p \in ArbitraryPackets : wire' = p
    /\ pc' = "received"
    /\ UNCHANGED <<kind, message, trailer, encoded, decoded, agentVars>>

\* hubpack::deserialize::<Request>(&wire)
ReceiveAsRequest ==
    /\ \/ pc = "encoded" /\ kind = "Request"
       \/ pc = "received"
    /\ decoded' = DecodeRequest(wire)
    /\ kind' = "Request"
    /\ pc' = "decoded"
    /\ UNCHANGED <<message, trailer, encoded, wire, agentVars>>

\* hubpack::deserialize::<SequencerRegistersResponseV0>(&wire)
ReceiveAsResponse ==
    /\ \/ pc = "encoded" /\ kind = "Response"
       \/ pc = "received"
    /\ decoded' = DecodeSequencerRegistersResponseV0(wire)
    /\ kind' = "Response"
    /\ pc' = "decoded"
    /\ UNCHANGED <<message, trailer, encoded, wire, agentVars>>

Next ==
    \/ SendRequest
    \/ SendResponse
    \/ ReceiveArbitrary
    \/ ReceiveAsRequest
    \/ ReceiveAsResponse

Spec == Init /\ [][Next]_vars

----------------------------------------------------------------------------
(* The inspector agent: receive, decode, dispatch, respond *)

\* Datagrams the transport may deliver to the agent: the requests, and
\* packets that are not a request.
InboundPackets ==
    {EncodeRequest(r) : r \in Request} \cup {<<>>, <<0>>, <<0, 1>>, <<1, 0>>}

\* What the sequencer collaborator may return: a register image of at most
\* SEQ_REG_RESP_V0_TRAILER bytes ("the number of bytes appended may depend
\* on the sequencer revision", 64 at present), or one of its two failures,
\* where the register buffer holds nothing or what an earlier read left.
Outcomes ==
    {[kind |-> "Ok", regs |-> Trailer(n, f, 1)] :
        n \in 0..SEQ_REG_RESP_V0_TRAILER, f \in RevisionTags}
    \cup {[kind |-> k, regs |-> Trailer(n, f, 1)] :
            k \in {"TaskDead", "ReadRegsFailed"},
            n \in {0, SEQ_REG_RESP_V0_TRAILER}, f \in RevisionTags}

\* What a collaborator returns whose register image has outgrown the
\* budget, by up to MaxExcess bytes: the protocol constant is stale.
OverBudgetOutcomes ==
    {[kind |-> "Ok", regs |-> Trailer(n, f, 1)] :
        n \in (SEQ_REG_RESP_V0_TRAILER + 1)
                 ..(SEQ_REG_RESP_V0_TRAILER + MaxExcess),
        f \in RevisionTags}

\* The response variant an outcome of the collaborator is classified into.
Classify(o) ==
    CASE o.kind = "Ok" -> <<"Success">>
      [] o.kind = "TaskDead" -> <<"SequencerTaskDead">>
      [] o.kind = "ReadRegsFailed" -> <<"SequencerReadRegsFailed">>

\* Faulty variant: the register buffer is attached whatever the variant.
Attached_Always(v, regs) == regs

\* The data attached after a response: the registers for Success, "No data
\* is attached" for SequencerTaskDead and SequencerReadRegsFailed.
Attached(v, regs) == IF v = <<"Success">> THEN regs ELSE <<>>

\* Faulty variant: a failure of the collaborator halts the agent instead of being
\* reported.
BuildResponse_FatalOnFailure(o) ==
    IF o.kind # "Ok" \/ Len(o.regs) > SEQ_REG_RESP_V0_TRAILER
    THEN [fatal |-> TRUE, packet |-> <<>>]
    ELSE [fatal |-> FALSE, packet |-> <<0>> \o o.regs]

\* Faulty variant: a register image over the budget is cut to the budget and sent.
BuildResponse_Truncating(o) ==
    [fatal |-> FALSE,
     packet |->
        IF o.kind = "Ok"
        THEN <<0>> \o (IF Len(o.regs) > SEQ_REG_RESP_V0_TRAILER
                       THEN SubSeq(o.regs, 1, SEQ_REG_RESP_V0_TRAILER)
                       ELSE o.regs)
        ELSE IF o.kind = "TaskDead" THEN <<1>> ELSE <<2>>]

\* build_response: the response variant and its trailer; a trailer over the
\* declared budget is fatal.
BuildResponse(o) ==
    LET v == Classify(o)
        t == Attached(v, o.regs)
    IN  IF Len(t) > SEQ_REG_RESP_V0_TRAILER
        THEN [fatal |-> TRUE, packet |-> <<>>]
        ELSE [fatal |-> FALSE,
              packet |->
                  LET res == Serialize(Fresh(ANY_RESPONSE_V0_MAX_SIZE),
                                 EncodeSequencerRegistersResponseV0(v))
                  IN  SubSeq(res.buf, 1, res.len) \o t]

\* The transport delivers a datagram.
Arrive ==
    /\ arrived < MaxInbound
    /\ \E p \in InboundPackets : inbox' = Append(inbox, p)
    /\ arrived' = arrived + 1
    /\ UNCHANGED <<apc, query, outcome, sent, nDecoded, nSent, nAborted>>
    /\ UNCHANGED codecVars

\* The agent considers the next datagram and decodes it as a Request; one
\* that does not decode is dropped.
AgentReceive ==
    /\ apc = "idle"
    /\ inbox # <<>>
    /\ LET d == DecodeRequest(Head(inbox))
       IN  IF d.ok
           THEN /\ query' = Tail(d.value)
                /\ apc' = "dispatch"
                /\ nDecoded' = nDecoded + 1
           ELSE /\ query' = <<>>
                /\ apc' = "idle"
                /\ nDecoded' = nDecoded
    /\ inbox' = Tail(inbox)
    /\ sent' = <<>>
    /\ UNCHANGED <<arrived, outcome, nSent, nAborted>>
    /\ UNCHANGED codecVars

\* Dispatch on the query: SequencerRegisters delegates to the sequencer
\* collaborator, which returns one of `outcomes`.
DispatchTo(outcomes) ==
    /\ apc = "dispatch"
    /\ query = <<"SequencerRegisters">>
    /\ \E o \in outcomes : outcome' = o
    /\ apc' = "respond"
    /\ UNCHANGED <<inbox, arrived, query, sent, nDecoded, nSent, nAborted>>
    /\ UNCHANGED codecVars

\* The collaborator keeps to the trailer budget.
Dispatch == DispatchTo(Outcomes)

\* The collaborator may also return more than the trailer budget.
DispatchStale == DispatchTo(Outcomes \cup OverBudgetOutcomes)

\* Encode and send the response, or halt on a trailer over the budget.
Respond ==
    /\ apc = "respond"
    /\ LET r == BuildResponse(outcome)
       IN  IF r.fatal
           THEN /\ apc' = "fatal"
                /\ UNCHANGED <<sent, nSent, query, outcome>>
           ELSE /\ apc' = "idle"
                /\ sent' = r.packet
                /\ nSent' = nSent + 1
                /\ query' = <<>>
                /\ outcome' = NoOutcome
    /\ UNCHANGED <<inbox, arrived, nDecoded, nAborted>>
    /\ UNCHANGED codecVars

\* The task supervisor restarts the halted agent; the request it was
\* handling is lost.
Restart ==
    /\ apc = "fatal"
    /\ apc' = "idle"
    /\ query' = <<>>
    /\ outcome' = NoOutcome
    /\ nAborted' = nAborted + 1
    /\ UNCHANGED <<inbox, arrived, sent, nDecoded, nSent>>
    /\ UNCHANGED codecVars

\* The agent with a collaborator that keeps to the trailer budget.
AgentNext ==
    \/ Arrive
    \/ AgentReceive
    \/ Dispatch
    \/ Respond

AgentSpec == Init /\ [][AgentNext]_vars

\* The agent with a trailer budget that is out of date.
StaleBudgetNext ==
    \/ Arrive
    \/ AgentReceive
    \/ DispatchStale
    \/ Respond
    \/ Restart

StaleBudgetSpec == Init /\ [][StaleBudgetNext]_vars

----------------------------------------------------------------------------
(* Encoding checks of the crate's tests *)

V0SequencerRegisters == <<"V0", "SequencerRegisters">>

\* C1: encoding Request::V0(QueryV0::SequencerRegisters) into a fresh buffer
\* writes exactly 2 bytes, [0, 0]: the version ordinal, then the query
\* ordinal.
C1_RequestEncoding ==
    (pc = "encoded" /\ kind = "Request" /\ message = V0SequencerRegisters)
        => /\ encoded.ok
           /\ encoded.len = 2
           /\ SubSeq(encoded.buf, 1, 2) = <<0, 0>>
           /\ wire = <<0, 0>>

C1_Witness ==
    pc = "encoded" /\ kind = "Request" /\ message = V0SequencerRegisters

\* C2: each variant of SequencerRegistersResponseV0 encodes into a fresh
\* buffer as exactly 1 byte, its position in declaration order: Success 0,
\* SequencerTaskDead 1, SequencerReadRegsFailed 2.
C2_ResponseEncoding ==
    (pc = "encoded" /\ kind = "Response")
        => /\ encoded.ok
           /\ encoded.len = 1
           /\ message = <<"Success">> => encoded.buf[1] = 0
           /\ message = <<"SequencerTaskDead">> => encoded.buf[1] = 1
           /\ message = <<"SequencerReadRegsFailed">> => encoded.buf[1] = 2
           /\ encoded.buf[1] \in 0..2

C2_Witness ==
    /\ pc = "encoded" /\ kind = "Response"
    /\ message = <<"SequencerReadRegsFailed">>
    /\ trailer = <<>>

\* C3: round trip.  Decoding the encoding of any Request, or of any
\* SequencerRegistersResponseV0 followed by a trailer of 0 to 64 bytes,
\* yields the value and leaves exactly the trailer as the rest; Success with
\* a 64-byte trailer is a 65-byte packet.
C3_RoundTrip ==
    (pc = "decoded" /\ message # <<>>)
        => /\ decoded.ok
           /\ decoded.value = message
           /\ decoded.rest = trailer
           /\ (message = <<"Success">> /\ Len(trailer) = 64)
                 => Len(wire) = 65

C3_Witness ==
    /\ pc = "decoded" /\ kind = "Response"
    /\ message = <<"Success">>
    /\ Len(trailer) = 64 /\ trailer[1] = 3 /\ trailer[64] = 66
    /\ decoded.rest = trailer

\* C4 as stated: decoding as a Request a buffer whose first byte is not 0
\* returns DecodeError::UnknownVersion and no Request.
C4_UnknownVersionError ==
    (pc = "decoded" /\ kind = "Request" /\ wire # <<>> /\ wire[1] # 0)
        => /\ ~decoded.ok
           /\ decoded.value = <<>>
           /\ decoded.err = "UnknownVersion"

\* C4 as amended: decoding as a Request a buffer whose first byte is not 0
\* fails with hubpack's error for a variant index no variant has (Custom,
\* the same error an unknown query index gives) and returns no Request.
C4_UnknownVersionRejected ==
    (pc = "decoded" /\ kind = "Request" /\ wire # <<>> /\ wire[1] # 0)
        => /\ ~decoded.ok
           /\ decoded.value = <<>>
           /\ decoded.err = "Custom"
           /\ decoded.err = DecodeQueryV0(<<1>>).err

\* A version byte of 1 in front of what would be a whole valid request.
C4_Witness ==
    /\ pc = "decoded" /\ kind = "Request"
    /\ wire = <<1, 0, 0>>
    /\ ~decoded.ok

\* C5: decoding fails and produces no value when the query or response
\* index is one no variant has, or the buffer is too short: a Request
\* [0, k] with k >= 1, a response byte >= 3, an empty buffer, the Request
\* buffer [0].
C5_DecodeErrors ==
    pc = "decoded" =>
        /\ (kind = "Request" /\ Len(wire) >= 2 /\ wire[1] = 0 /\ wire[2] >= 1)
              => (~decoded.ok /\ decoded.value = <<>> /\ decoded.err # "none")
        /\ (kind = "Request" /\ wire \in {<<>>, <<0>>})
              => (~decoded.ok /\ decoded.value = <<>> /\ decoded.err # "none")
        /\ (kind = "Response" /\ wire = <<>>)
              => (~decoded.ok /\ decoded.value = <<>> /\ decoded.err # "none")
        /\ (kind = "Response" /\ wire # <<>> /\ wire[1] >= 3)
              => (~decoded.ok /\ decoded.value = <<>> /\ decoded.err # "none")

C5_Witness ==
    /\ pc = "decoded" /\ kind = "Request"
    /\ wire = <<0, 1>>
    /\ ~decoded.ok

\* C6: for every variant of the V0 response type, its encoded size plus the
\* largest trailer it may carry is at most ANY_RESPONSE_V0_MAX_SIZE =
\* SequencerRegistersResponseV0::MAX_SIZE + SEQ_REG_RESP_V0_TRAILER = 65, so
\* a buffer of that size holds the whole packet.
C6_SizeConstantSound ==
    /\ ANY_RESPONSE_V0_MAX_SIZE = 65
    /\ (pc = "encoded" /\ kind = "Response")
        => /\ encoded.len + TrailerLimit(message) <= ANY_RESPONSE_V0_MAX_SIZE
           /\ Len(trailer) <= TrailerLimit(message)
                 => Len(wire) <= ANY_RESPONSE_V0_MAX_SIZE

C6_Witness ==
    /\ pc = "encoded" /\ kind = "Response"
    /\ message = <<"Success">>
    /\ Len(trailer) = SEQ_REG_RESP_V0_TRAILER
    /\ Len(wire) = ANY_RESPONSE_V0_MAX_SIZE

\* C10: MAX_SIZE is the size of a type's widest encoding: every Request
\* encodes to at most Request::MAX_SIZE = 2 bytes and every
\* SequencerRegistersResponseV0 to at most its MAX_SIZE = 1, some value
\* reaches each bound, and serializing into a buffer of MAX_SIZE bytes never
\* fails for lack of space.
C10_MaxSizeIsWidest ==
    /\ Request_MAX_SIZE = 2
    /\ SequencerRegistersResponseV0_MAX_SIZE = 1
    /\ \E r \in Request : Len(EncodeRequest(r)) = Request_MAX_SIZE
    /\ \E v \in SequencerRegistersResponseV0 :
          Len(EncodeSequencerRegistersResponseV0(v))
              = SequencerRegistersResponseV0_MAX_SIZE
    /\ pc = "encoded" =>
          /\ encoded.ok
          /\ encoded.err # "Overrun"
          /\ kind = "Request" => encoded.len <= Request_MAX_SIZE
          /\ kind = "Response"
                => encoded.len <= SequencerRegistersResponseV0_MAX_SIZE
          /\ Len(encoded.buf) \in
                {Request_MAX_SIZE, SequencerRegistersResponseV0_MAX_SIZE}

C10_Witness ==
    /\ pc = "encoded" /\ kind = "Request"
    /\ encoded.ok /\ encoded.len = Request_MAX_SIZE

----------------------------------------------------------------------------
(* Properties of the agent's responses *)

InProgress == IF apc \in {"dispatch", "respond", "fatal"} THEN 1 ELSE 0

OverBudget ==
    outcome.kind = "Ok" /\ Len(outcome.regs) > SEQ_REG_RESP_V0_TRAILER

\* C7: in every response to QueryV0::SequencerRegisters, trailer bytes
\* follow the discriminant only when it is 0 (Success), and are then at most
\* SEQ_REG_RESP_V0_TRAILER = 64; a response with discriminant 1 or 2 is
\* exactly 1 byte long.
C7_TrailerOnlyOnSuccess ==
    sent # <<>> =>
        /\ Len(sent) > 1 => sent[1] = 0
        /\ Len(sent) - 1 <= SEQ_REG_RESP_V0_TRAILER
        /\ SEQ_REG_RESP_V0_TRAILER = 64
        /\ sent[1] \in {1, 2} => Len(sent) = 1

C7_Witness ==
    /\ Len(sent) = 1 + SEQ_REG_RESP_V0_TRAILER
    /\ sent[1] = 0 /\ sent[2] = 3
    /\ nSent = 2

C9_OverBudgetIsFatal ==
    /\ [](/\ Len(sent) <= ANY_RESPONSE_V0_MAX_SIZE
          /\ apc = "fatal" => (sent = <<>> /\ OverBudget))
    /\ [][/\ (apc = "respond" /\ apc' # "respond" /\ OverBudget) =>
                (apc' = "fatal" /\ nSent' = nSent /\ sent' = <<>>)
          /\ (nSent' # nSent /\ outcome.kind = "Ok") =>
                Tail(sent') = outcome.regs
         ]_vars

C9_Witness ==
    /\ apc = "fatal"
    /\ Len(outcome.regs) = SEQ_REG_RESP_V0_TRAILER + 1
    /\ sent = <<>> /\ nSent = 1

=============================================================================
